---- MODULE Spec2Model ----
(***************************************************************************)
(* Model of typescript-deno-plugin/src/index.ts: the settings store, the   *)
(* enablement resolver (#denoEnabled, #fileNameDenoEnabled), the wrapper   *)
(* factory callIfDisabled, the configuration protocol and pathStartsWith.  *)
(*                                                                         *)
(* JavaScript values are encoded as follows.                               *)
(*   - an optional boolean is one of "true", "false", "null", "undefined"; *)
(*     "undefined" stands for an absent key (settings arrive as JSON, so   *)
(*     a present key never holds undefined);                               *)
(*   - a string that is a path is a sequence of one-character strings;     *)
(*   - the Map projectSettings is a function whose DOMAIN is its key set;  *)
(*   - an object identity is a record, `heap` gives its contents.          *)
(***************************************************************************)
EXTENDS Integers, Sequences, FiniteSets, TLC

VARIABLES
  projectSettings,  \* Map<string, PluginSettings>
  defaultSettings,  \* the process-wide default record (only `enable` is read)
  scheduled,        \* per project: setImmediate callbacks registered by create
  deferredRuns,     \* per project: setImmediate callbacks that have run
  configCalls,      \* per project: onConfigurationChanged calls made
  syncRefreshes,    \* per project: refreshDiagnostics signals sent by onConfigurationChanged
  lastOp,           \* the latest host call and what it did
  heap,             \* contents of the instances built for the host or changed by it
  handedOut,        \* the instances returned to the host as neutral results, in call order
  pathQuery         \* the latest direct pathStartsWith evaluation

vars == <<projectSettings, defaultSettings, scheduled, deferredRuns, configCalls,
          syncRefreshes, lastOp, heap, handedOut, pathQuery>>

-----------------------------------------------------------------------------
(* Bounds of the model.                                                    *)

MaxDepth == 2      \* segments in a path drawn for pathStartsWith
MaxFilters == 2    \* path filters in a drawn settings record
MaxCreates == 1    \* create calls per project
MaxConfigs == 2    \* onConfigurationChanged calls per project
MaxCalls == 2      \* instances handed out by wrapped operations

-----------------------------------------------------------------------------
(* Strings and node's path module (posix flavour).                         *)

Platform == "linux"

Sep == "/"
Dot == "."

\* process.cwd(), as a list of segments; relative paths resolve against it.
Cwd == << <<"c">> >>

RECURSIVE SplitFrom(_, _, _)
SplitFrom(str, i, cur) ==
  IF i > Len(str) THEN <<cur>>
  ELSE IF str[i] = Sep THEN <<cur>> \o SplitFrom(str, i + 1, <<>>)
  ELSE SplitFrom(str, i + 1, Append(cur, str[i]))

\* str.split("/")
Split(str) == SplitFrom(str, 1, <<>>)

RECURSIVE Join(_)
\* segs.join("/")
Join(segs) ==
  IF Len(segs) = 0 THEN <<>>
  ELSE IF Len(segs) = 1 THEN segs[1]
  ELSE segs[1] \o <<Sep>> \o Join(Tail(segs))

\* path.isAbsolute
isAbsolute(p) == Len(p) > 0 /\ p[1] = Sep

RECURSIVE NormalizeFrom(_, _, _)
\* normalizeString of an absolute path: drops "" and ".", ".." pops a segment
\* and is dropped at the root.
NormalizeFrom(segs, i, acc) ==
  IF i > Len(segs) THEN acc
  ELSE IF segs[i] = <<>> \/ segs[i] = <<Dot>> THEN NormalizeFrom(segs, i + 1, acc)
  ELSE IF segs[i] = <<Dot, Dot>>
    THEN NormalizeFrom(segs, i + 1,
                       IF Len(acc) = 0 THEN acc ELSE SubSeq(acc, 1, Len(acc) - 1))
  ELSE NormalizeFrom(segs, i + 1, Append(acc, segs[i]))

\* path.resolve(p), as the list of segments below the root
resolve(p) ==
  NormalizeFrom(IF isAbsolute(p) THEN Split(p) ELSE Cwd \o Split(p), 1, <<>>)

RECURSIVE CommonLen(_, _, _)
CommonLen(a, b, n) ==
  IF n < Len(a) /\ n < Len(b) /\ a[n + 1] = b[n + 1]
    THEN CommonLen(a, b, n + 1) ELSE n

\* path.relative(from, to)
relative(from, to) ==
  LET f == resolve(from)
      t == resolve(to)
      n == CommonLen(f, t, 0)
      ups == [i \in 1..(Len(f) - n) |-> <<Dot, Dot>>]
  IN  Join(ups \o SubSeq(t, n + 1, Len(t)))

\* fileName.replace(/\//g, "\\")
ReplaceSlashes(str) == [i \in 1..Len(str) |-> IF str[i] = Sep THEN "\\" ELSE str[i]]

\* str.match(PARENT_RELATIVE_REGEX) !== null: the regex is unanchored, it
\* matches ".." followed by a separator or by the end of the string anywhere.
MatchesParentRelative(str) ==
  \E i \in 1..(Len(str) - 1) :
    /\ str[i] = Dot
    /\ str[i + 1] = Dot
    /\ \/ i + 1 = Len(str)
       \/ str[i + 2] = Sep
       \/ Platform = "win32" /\ str[i + 2] = "\\"

\* pathStartsWith(child, parent)
pathStartsWith(child, parent) ==
  IF isAbsolute(child) # isAbsolute(parent) THEN FALSE
  ELSE ~MatchesParentRelative(relative(parent, child))

-----------------------------------------------------------------------------
(* Settings store.                                                         *)

Projects == {"p1", "p2"}

Undefined == "undefined"
Null == "null"
OptBool == {"true", "false", Null, Undefined}

\* a ?? b
Coalesce(a, b) == IF a = Null \/ a = Undefined THEN b ELSE a

\* map.get(key)?.field, for a map given as a function
Has(map, key) == key \in DOMAIN map

\* map.set(key, value)
MapSet(map, key, value) ==
  [k \in DOMAIN map \cup {key} |-> IF k = key THEN value ELSE map[k]]

EmptyMap == [k \in {} |-> Undefined]

\* the literal defaultSettings of the module; only `enable` is ever read
InitialDefaultSettings == [enable |-> Null]

\* Object.assign(target, source): every key present in source overwrites
ObjectAssign(target, source) ==
  [enable |-> IF source.enable = Undefined THEN target.enable ELSE source.enable]

\* updateSettings that keeps the record a project already has
updateSettingsKeepingFirst(store, default, project, settings) ==
  << IF Has(store, project) THEN store ELSE MapSet(store, project, settings),
     ObjectAssign(default, settings.workspace) >>

\* the effect of updateSettings(project, settings) on the two stores,
\* given as the pair <<projectSettings, defaultSettings>> after the call
updateSettings(store, default, project, settings) ==
  << MapSet(store, project, settings), ObjectAssign(default, settings.workspace) >>

-----------------------------------------------------------------------------
(* Enablement resolver.                                                    *)

\* #denoEnabled that never reads defaultSettings
denoEnabledOwnOnly(store, default, project) ==
  LET has == Has(store, project)
      enable == IF has THEN store[project].workspace.enable ELSE Undefined
      hasDenoConfig == Coalesce(IF has THEN store[project].hasDenoConfig ELSE Undefined,
                                "false")
  IN  Coalesce(enable, hasDenoConfig) = "true"

\* Plugin.#denoEnabled of the plugin of `project`, on given stores
denoEnabledOn(store, default, project) ==
  LET has == Has(store, project)
      enable == Coalesce(IF has THEN store[project].workspace.enable ELSE Undefined,
                         default.enable)
      hasDenoConfig == Coalesce(IF has THEN store[project].hasDenoConfig ELSE Undefined,
                                "false")
  IN  Coalesce(enable, hasDenoConfig) = "true"

denoEnabled(project) == denoEnabledOn(projectSettings, defaultSettings, project)

RECURSIVE FindFrom(_, _, _)
\* settings.pathFilters.find(({ workspace }) => pathStartsWith(fileName, workspace)):
\* the index of the first such filter, 0 when there is none
FindFrom(filters, fileName, i) ==
  IF i > Len(filters) THEN 0
  ELSE IF pathStartsWith(fileName, filters[i].workspace) THEN i
  ELSE FindFrom(filters, fileName, i + 1)

\* what the path filters of `settings` answer for fileName:
\* "true", "false", or Undefined when the code falls through to line 115
filterAnswer(settings, fileName) ==
  IF ~settings.pathFilters.defined THEN Undefined
  ELSE LET i == FindFrom(settings.pathFilters.list, fileName, 1)
       IN  IF i = 0 THEN Undefined
           ELSE LET pathFilter == settings.pathFilters.list[i]
                IN  IF \E k \in DOMAIN pathFilter.disabled :
                            pathStartsWith(fileName, pathFilter.disabled[k])
                      THEN "false"
                    ELSE IF pathFilter.enabled.defined
                      THEN IF \E k \in DOMAIN pathFilter.enabled.list :
                                  pathStartsWith(fileName, pathFilter.enabled.list[k])
                             THEN "true" ELSE "false"
                    ELSE Undefined

\* settings?.documents?.[fileName]?.settings.enable
documentEnable(settings, fileName) ==
  IF Has(settings.documents, fileName) THEN settings.documents[fileName] ELSE Undefined

\* Plugin.#fileNameDenoEnabled(fileName) of the plugin of `project`
fileNameDenoEnabled(project, fileNameArg) ==
  LET fileName == IF Platform = "win32" THEN ReplaceSlashes(fileNameArg) ELSE fileNameArg
      has == Has(projectSettings, project)
      answer == IF has THEN filterAnswer(projectSettings[project], fileName) ELSE Undefined
  IN  IF answer # Undefined THEN answer = "true"
      ELSE LET doc == IF has THEN documentEnable(projectSettings[project], fileName)
                      ELSE Undefined
           IN  IF doc = Null \/ doc = Undefined THEN denoEnabled(project)
               ELSE doc = "true"

-----------------------------------------------------------------------------
(* The wrapper factory.                                                    *)

\* callIfDisabled(name, 0, [])
FileArrayOps ==
  {"commentSelection", "getApplicableRefactors", "getBraceMatchingAtPosition",
   "getCodeFixesAtPosition", "getEditsForFileRename", "getNavigationBarItems",
   "getOutliningSpans", "getSemanticClassifications", "getSemanticDiagnostics",
   "getSuggestionDiagnostics", "getSyntacticDiagnostics", "getSyntacticClassifications",
   "getTodoComments", "provideCallHierarchyIncomingCalls",
   "provideCallHierarchyOutgoingCalls", "provideInlayHints", "toggleLineComment",
   "toggleMultilineComment", "uncommentSelection"}

\* callIfDisabled(name, 0, undefined)
FileUndefinedOps ==
  {"findReferences", "findRenameLocations", "getBreakpointStatementAtPosition",
   "getCompletionEntryDetails", "getCompletionEntrySymbol", "getCompletionsAtPosition",
   "getDefinitionAndBoundSpan", "getDefinitionAtPosition",
   "getDocCommentTemplateAtPosition", "getDocumentHighlights", "getEditsForRefactor",
   "getImplementationAtPosition", "getJsxClosingTagAtPosition", "getNameOrDottedNameSpan",
   "getQuickInfoAtPosition", "getReferencesAtPosition", "getSignatureHelpItems",
   "getSpanOfEnclosingComment", "getTypeDefinitionAtPosition", "prepareCallHierarchy"}

\* callIfDisabled(name, undefined, [])
GlobalArrayOps == {"getCompilerOptionsDiagnostics", "getNavigateToItems"}

\* callIfDisabled(name, 0, () => ({ ... }))
FileProducerOps ==
  {"getEncodedSemanticClassifications", "getEncodedSyntacticClassifications",
   "getNavigationTree"}

Operations == FileArrayOps \cup FileUndefinedOps \cup GlobalArrayOps \cup FileProducerOps

\* the second argument of callIfDisabled: an argument index, or -1 for undefined
fileNameArg(op) == IF op \in GlobalArrayOps THEN -1 ELSE 0

\* the kind of the third argument of callIfDisabled
emptyReturn(op) ==
  IF op \in FileArrayOps \cup GlobalArrayOps THEN "array"
  ELSE IF op \in FileProducerOps THEN "function"
  ELSE "undefined"

\* a wrapper that always asks the project-global check
resolveEnabledIgnoringFile(project, op, args) == denoEnabled(project)

\* lines 148-150: the enablement a wrapped operation resolves
resolveEnabled(project, op, args) ==
  IF fileNameArg(op) # -1
    THEN fileNameDenoEnabled(project, args[fileNameArg(op) + 1])
    ELSE denoEnabled(project)

\* a wrapper that returns the declared emptyReturn without the Array.isArray analysis
callIfDisabledSharingDefault(project, op, args) ==
  LET enabled == resolveEnabled(project, op, args)
  IN  [enabled |-> enabled,
       value |-> IF enabled THEN "emptyReturn" ELSE "target",
       targetCalls |-> IF enabled THEN <<>> ELSE <<args>>]

\* lines 146-160: what the function built by callIfDisabled(op, ...) does when
\* called with args. `value` names the expression whose value is returned:
\* "[]" a new array literal, "emptyReturn()" a call of the producer,
\* "emptyReturn" the declared value itself, "target" the result of target.call;
\* `targetCalls` lists the argument lists target.call received.
callIfDisabled(project, op, args) ==
  LET enabled == resolveEnabled(project, op, args)
  IN  [enabled |-> enabled,
       value |-> IF enabled
                   THEN IF emptyReturn(op) = "array" THEN "[]"
                        ELSE IF emptyReturn(op) = "function" THEN "emptyReturn()"
                        ELSE "emptyReturn"
                   ELSE "target",
       targetCalls |-> IF enabled THEN <<>> ELSE <<args>>]

\* lines 167-170: the replaced project.getGlobalProjectErrors
getGlobalProjectErrors(project) == IF denoEnabled(project) THEN "[]" ELSE "original"

\* getAllProjectErrors with the branches exchanged
getAllProjectErrorsInverted(project) == IF denoEnabled(project) THEN "original" ELSE "[]"

\* lines 172-173: the replaced project.getAllProjectErrors
getAllProjectErrors(project) == IF denoEnabled(project) THEN "[]" ELSE "original"

-----------------------------------------------------------------------------
(* Records of the model.                                                   *)

NoSettings ==
  [workspace |-> [enable |-> Undefined], hasDenoConfig |-> Undefined,
   pathFilters |-> [defined |-> FALSE, list |-> <<>>], documents |-> EmptyMap]

NoId == [origin |-> "none", project |-> "", op |-> "", n |-> 0]

\* the array literal written as the third argument of callIfDisabled(op, ...)
\* by the n-th create of the project's plugin
DeclaredId(project, op, n) ==
  [origin |-> "declared", project |-> project, op |-> op, n |-> n]

\* the n-th instance built while answering a call
FreshId(n) == [origin |-> "call", project |-> "", op |-> "", n |-> n]

NoOp ==
  [kind |-> "none", project |-> "", op |-> "", args |-> <<>>, settings |-> NoSettings,
   same |-> FALSE, updated |-> FALSE, refreshSeen |-> NoSettings,
   enabled |-> FALSE, value |-> "", id |-> NoId, targetCalls |-> <<>>]

-----------------------------------------------------------------------------
(* Operations.                                                             *)

\* create that calls refreshDiagnostics itself instead of scheduling it
createRefreshingSynchronously(project, config) ==
  LET updated == updateSettings(projectSettings, defaultSettings, project, config)
  IN  /\ projectSettings' = updated[1]
      /\ defaultSettings' = updated[2]
      /\ scheduled' = [scheduled EXCEPT ![project] = @ + 1]
      /\ deferredRuns' = [deferredRuns EXCEPT ![project] = @ + 1]
      /\ lastOp' = [NoOp EXCEPT !.kind = "create", !.project = project,
                                !.settings = config, !.updated = TRUE,
                                !.refreshSeen = updated[1][project]]
      /\ UNCHANGED <<configCalls, syncRefreshes, heap, handedOut, pathQuery>>

\* Plugin.create(info), info.project = project, info.config = config
create(project, config) ==
  LET updated == updateSettings(projectSettings, defaultSettings, project, config)
  IN  /\ projectSettings' = updated[1]
      /\ defaultSettings' = updated[2]
      /\ scheduled' = [scheduled EXCEPT ![project] = @ + 1]
      /\ lastOp' = [NoOp EXCEPT !.kind = "create", !.project = project,
                                !.settings = config, !.updated = TRUE]
      /\ UNCHANGED <<deferredRuns, configCalls, syncRefreshes, heap, handedOut, pathQuery>>

\* the callback given to setImmediate by create
runImmediate(project) ==
  /\ deferredRuns[project] < scheduled[project]
  /\ deferredRuns' = [deferredRuns EXCEPT ![project] = @ + 1]
  /\ lastOp' = [NoOp EXCEPT !.kind = "immediate", !.project = project,
                            !.refreshSeen = projectSettings[project]]
  /\ UNCHANGED <<projectSettings, defaultSettings, scheduled, configCalls, syncRefreshes,
                 heap, handedOut, pathQuery>>

\* onConfigurationChanged that refreshes only when the settings differ
onConfigurationChangedIfDifferent(project, settings) ==
  LET updated == updateSettings(projectSettings, defaultSettings, project, settings)
      same == projectSettings[project] = settings
  IN  /\ scheduled[project] > 0
      /\ projectSettings' = updated[1]
      /\ defaultSettings' = updated[2]
      /\ configCalls' = [configCalls EXCEPT ![project] = @ + 1]
      /\ syncRefreshes' = [syncRefreshes EXCEPT ![project] = IF same THEN @ ELSE @ + 1]
      /\ lastOp' = [NoOp EXCEPT !.kind = "onConfigurationChanged", !.project = project,
                                !.settings = settings, !.same = same, !.updated = TRUE,
                                !.refreshSeen = IF same THEN NoSettings
                                                ELSE updated[1][project]]
      /\ UNCHANGED <<scheduled, deferredRuns, heap, handedOut, pathQuery>>

\* Plugin.onConfigurationChanged(settings) on the plugin of `project`
onConfigurationChanged(project, settings) ==
  LET updated == updateSettings(projectSettings, defaultSettings, project, settings)
  IN  /\ scheduled[project] > 0
      /\ projectSettings' = updated[1]
      /\ defaultSettings' = updated[2]
      /\ configCalls' = [configCalls EXCEPT ![project] = @ + 1]
      /\ syncRefreshes' = [syncRefreshes EXCEPT ![project] = @ + 1]
      /\ lastOp' = [NoOp EXCEPT !.kind = "onConfigurationChanged", !.project = project,
                                !.settings = settings,
                                !.same = (projectSettings[project] = settings),
                                !.updated = TRUE,
                                !.refreshSeen = updated[1][project]]
      /\ UNCHANGED <<scheduled, deferredRuns, heap, handedOut, pathQuery>>

\* a call of project.getGlobalProjectErrors() or project.getAllProjectErrors()
ProjectErrors(project, method) ==
  /\ scheduled[project] > 0
  /\ lastOp' = [NoOp EXCEPT !.kind = "errors", !.project = project, !.op = method,
                            !.enabled = denoEnabled(project),
                            !.value = IF method = "getGlobalProjectErrors"
                                        THEN getGlobalProjectErrors(project)
                                        ELSE getAllProjectErrors(project)]
  /\ UNCHANGED <<projectSettings, defaultSettings, scheduled, deferredRuns, configCalls,
                 syncRefreshes, heap, handedOut, pathQuery>>

\* the contents of an instance: an array is empty until the host changes it
Contents(id) == IF id \in DOMAIN heap THEN heap[id] ELSE <<>>

\* a call of the wrapped language-service operation op with args
WrappedCall(project, op, args) ==
  /\ scheduled[project] > 0
  /\ fileNameArg(op) # -1 => Len(args) > fileNameArg(op)
  /\ \E r \in {callIfDisabled(project, op, args)} :
       LET builds == r.value \in {"[]", "emptyReturn()"}
           built == {i \in DOMAIN heap : i.origin = "call"}
           id == IF builds THEN FreshId(Cardinality(built) + 1)
                 ELSE IF r.value = "emptyReturn" /\ emptyReturn(op) # "undefined"
                   THEN DeclaredId(project, op, scheduled[project])
                 ELSE NoId
       IN  /\ heap' = IF builds THEN MapSet(heap, id, <<>>) ELSE heap
           /\ handedOut' = IF id # NoId THEN Append(handedOut, id) ELSE handedOut
           /\ lastOp' = [NoOp EXCEPT !.kind = "call", !.project = project, !.op = op,
                                     !.args = args, !.enabled = r.enabled,
                                     !.value = r.value, !.id = id,
                                     !.targetCalls = r.targetCalls]
  /\ UNCHANGED <<projectSettings, defaultSettings, scheduled, deferredRuns, configCalls,
                 syncRefreshes, pathQuery>>

\* the host pushes an element onto an array it was handed
MutateInstance(i) ==
  /\ i \in DOMAIN handedOut
  /\ Contents(handedOut[i]) = <<>>
  /\ heap' = MapSet(heap, handedOut[i], <<"x">>)
  /\ lastOp' = [NoOp EXCEPT !.kind = "mutate", !.id = handedOut[i]]
  /\ UNCHANGED <<projectSettings, defaultSettings, scheduled, deferredRuns, configCalls,
                 syncRefreshes, handedOut, pathQuery>>

\* a direct evaluation of pathStartsWith(child, parent)
CheckPath ==
  /\ ~pathQuery.done
  /\ pathQuery' = [pathQuery EXCEPT !.done = TRUE,
                                    !.result = pathStartsWith(pathQuery.child, pathQuery.parent)]
  /\ UNCHANGED <<projectSettings, defaultSettings, scheduled, deferredRuns, configCalls,
                 syncRefreshes, lastOp, heap, handedOut>>

-----------------------------------------------------------------------------
(* Inputs.                                                                 *)

ErrorMethods == {"getGlobalProjectErrors", "getAllProjectErrors"}

Settings(enable, hasDenoConfig, pathFilters, documents) ==
  [workspace |-> [enable |-> enable], hasDenoConfig |-> hasDenoConfig,
   pathFilters |-> pathFilters, documents |-> documents]

NoFilters == [defined |-> FALSE, list |-> <<>>]
Filters(list) == [defined |-> TRUE, list |-> list]
NoList == [defined |-> FALSE, list |-> <<>>]
List(list) == [defined |-> TRUE, list |-> list]

\* settings of the configuration protocol: workspace.enable and hasDenoConfig
\* explicit, null and absent
ProtocolSettings ==
  { Settings("true", Undefined, NoFilters, EmptyMap),
    Settings("false", "true", NoFilters, EmptyMap),
    Settings(Null, "true", NoFilters, EmptyMap),
    Settings(Null, "false", NoFilters, EmptyMap),
    Settings(Undefined, "true", NoFilters, EmptyMap),
    Settings(Undefined, Undefined, NoFilters, EmptyMap) }

\* settings pushed while the deferred refresh is pending
LiveSettings ==
  { Settings("true", Undefined, NoFilters, EmptyMap),
    Settings(Null, "true", NoFilters, EmptyMap) }

\* "/w", "/w/s", "/w/s/g"
DirW == <<"/", "w">>
DirWS == <<"/", "w", "/", "s">>
DirWSG == <<"/", "w", "/", "s", "/", "g">>

\* "/w/s/a", "/w/s/g/x", "/w/o", "/w/d../y", "/z"
FileApp == <<"/", "w", "/", "s", "/", "a">>
FileGen == <<"/", "w", "/", "s", "/", "g", "/", "x">>
FileOther == <<"/", "w", "/", "o">>
FileDots == <<"/", "w", "/", "d", ".", ".", "/", "y">>
FileOut == <<"/", "z">>

Files == {FileApp, FileGen, FileOther, FileDots, FileOut}

PathFilter(workspace, enabled, disabled) ==
  [workspace |-> workspace, enabled |-> enabled, disabled |-> disabled]

PathFilterValues ==
  {PathFilter(w, e, d) :
     w \in {DirW, DirWS},
     e \in {NoList, List(<<>>), List(<<DirWS>>)},
     d \in {<<>>, <<DirWSG>>}}

PathFiltersValues ==
  {NoFilters} \cup {Filters(l) : l \in UNION {[1..n -> PathFilterValues] : n \in 0..MaxFilters}}

DocumentsValues ==
  {EmptyMap} \cup {[f \in {file} |-> v] : file \in {FileApp, FileDots}, v \in {"true", "false"}}

\* settings for the file-scoped resolver
FileSettings ==
  {Settings(e, "true", pf, d) :
     e \in {"true", "false", Null}, pf \in PathFiltersValues, d \in DocumentsValues}

\* settings pushed while wrapped operations are called
CallSettings ==
  { Settings("true", Undefined, NoFilters, EmptyMap),
    Settings("false", "true", NoFilters, [f \in {FileGen} |-> "true"]),
    Settings(Null, "true",
             Filters(<<PathFilter(DirW, List(<<DirWS>>), <<DirWSG>>)>>), EmptyMap),
    Settings(Undefined, Undefined, Filters(<<>>), [f \in {FileApp} |-> "false"]) }

\* argument lists of wrapped operations: (fileName, position) or none
ArgLists == {<<f, <<"0">>>> : f \in {FileApp, FileGen}} \cup {<<>>}

PathSegments == {<<"a">>, <<"b">>, <<Dot, Dot>>, <<"a", Dot, Dot>>, <<Dot>>}

PathStrings ==
  LET lists == UNION {[1..n -> PathSegments] : n \in 0..MaxDepth}
  IN  {Join(l) : l \in lists} \cup {<<Sep>> \o Join(l) : l \in lists}

NoPathQuery == [child |-> <<>>, parent |-> <<>>, done |-> TRUE, result |-> TRUE]

-----------------------------------------------------------------------------
(* Specifications.                                                         *)

\* the module has been loaded, no plugin has been created
Init ==
  /\ projectSettings = EmptyMap
  /\ defaultSettings = InitialDefaultSettings
  /\ scheduled = [p \in Projects |-> 0]
  /\ deferredRuns = [p \in Projects |-> 0]
  /\ configCalls = [p \in Projects |-> 0]
  /\ syncRefreshes = [p \in Projects |-> 0]
  /\ lastOp = NoOp
  /\ heap = EmptyMap
  /\ handedOut = <<>>
  /\ pathQuery = NoPathQuery

Create ==
  \E p \in Projects, s \in ProtocolSettings : scheduled[p] < MaxCreates /\ create(p, s)

Configure ==
  \E p \in Projects, s \in ProtocolSettings :
    configCalls[p] < MaxConfigs /\ onConfigurationChanged(p, s)

Immediate == \E p \in Projects : runImmediate(p)

Errors == \E p \in Projects, m \in ErrorMethods : ProjectErrors(p, m)

Next == Create \/ Configure \/ Immediate \/ Errors

\* the configuration protocol of two projects
Spec == Init /\ [][Next]_vars

CreateLive ==
  \E p \in Projects, s \in LiveSettings : scheduled[p] < MaxCreates /\ create(p, s)

ConfigureLive ==
  \E p \in Projects, s \in LiveSettings :
    configCalls[p] < MaxConfigs /\ onConfigurationChanged(p, s)

NextLive == CreateLive \/ ConfigureLive \/ Immediate

\* node runs every callback given to setImmediate
SpecLive == Init /\ [][NextLive]_vars /\ \A p \in Projects : WF_vars(runImmediate(p))

CreateCalls ==
  \E s \in CallSettings : scheduled["p1"] < MaxCreates /\ create("p1", s)

ConfigureCalls ==
  \E s \in CallSettings : configCalls["p1"] < MaxConfigs /\ onConfigurationChanged("p1", s)

Call ==
  \E op \in Operations, args \in ArgLists :
    Len(handedOut) < MaxCalls /\ WrappedCall("p1", op, args)

Mutate == \E i \in 1..MaxCalls : MutateInstance(i)

\* the default record may hold what another project's settings left in it
InitCalls ==
  /\ projectSettings = EmptyMap
  /\ defaultSettings \in {[enable |-> e] : e \in {"true", "false", Null}}
  /\ scheduled = [p \in Projects |-> 0]
  /\ deferredRuns = [p \in Projects |-> 0]
  /\ configCalls = [p \in Projects |-> 0]
  /\ syncRefreshes = [p \in Projects |-> 0]
  /\ lastOp = NoOp
  /\ heap = EmptyMap
  /\ handedOut = <<>>
  /\ pathQuery = NoPathQuery

NextCalls == CreateCalls \/ ConfigureCalls \/ Call \/ Mutate

\* one project whose wrapped operations are called between configuration changes
SpecCalls == InitCalls /\ [][NextCalls]_vars

\* the plugin of p1 has been created and configured
InitFile ==
  /\ \E s \in FileSettings : projectSettings = [p \in {"p1"} |-> s]
  /\ defaultSettings \in {[enable |-> e] : e \in {"true", "false", Null}}
  /\ scheduled = [p \in Projects |-> IF p = "p1" THEN 1 ELSE 0]
  /\ deferredRuns = [p \in Projects |-> IF p = "p1" THEN 1 ELSE 0]
  /\ configCalls = [p \in Projects |-> IF p = "p1" THEN 1 ELSE 0]
  /\ syncRefreshes = [p \in Projects |-> IF p = "p1" THEN 1 ELSE 0]
  /\ lastOp = NoOp
  /\ heap = EmptyMap
  /\ handedOut = <<>>
  /\ pathQuery = NoPathQuery

CallFile == \E f \in Files : WrappedCall("p1", "getQuickInfoAtPosition", <<f, <<"0">>>>)

NextFile == CallFile

\* the file-scoped resolver on every drawn settings record
SpecFile == InitFile /\ [][NextFile]_vars

InitPath ==
  /\ projectSettings = EmptyMap
  /\ defaultSettings = InitialDefaultSettings
  /\ scheduled = [p \in Projects |-> 0]
  /\ deferredRuns = [p \in Projects |-> 0]
  /\ configCalls = [p \in Projects |-> 0]
  /\ syncRefreshes = [p \in Projects |-> 0]
  /\ lastOp = NoOp
  /\ heap = EmptyMap
  /\ handedOut = <<>>
  /\ \E c \in PathStrings, q \in PathStrings :
       pathQuery = [child |-> c, parent |-> q, done |-> FALSE, result |-> FALSE]

NextPath == CheckPath

\* pathStartsWith on every pair of drawn paths
SpecPath == InitPath /\ [][NextPath]_vars

-----------------------------------------------------------------------------
(* Properties.                                                             *)

\* the enablement the latest wrapped call has to resolve: the file-scoped
\* check on its first argument, the project-global check for the two
\* operations declared without a file argument
Resolved(call) ==
  IF call.op \in GlobalArrayOps THEN denoEnabled(call.project)
  ELSE fileNameDenoEnabled(call.project, call.args[1])

NeutralValues == {"[]", "emptyReturn()", "emptyReturn"}

\* C1 as stated: a wrapped operation resolves enablement on its file argument
\* (or globally), returns the neutral result without calling the underlying
\* capability when the enablement is false, and calls it exactly once with
\* the unmodified arguments when the enablement is true.
C1_DelegatesWhenEnabled ==
  lastOp.kind = "call" =>
    /\ lastOp.enabled = Resolved(lastOp)
    /\ ~Resolved(lastOp) => lastOp.value \in NeutralValues /\ lastOp.targetCalls = <<>>
    /\ Resolved(lastOp) => lastOp.value = "target" /\ lastOp.targetCalls = <<lastOp.args>>

\* C1 amended: a wrapped operation resolves enablement on its file argument
\* (or globally), returns the neutral result without calling the underlying
\* capability when the enablement is TRUE, and calls it exactly once with the
\* unmodified arguments, returning its result, when the enablement is FALSE.
C1_DelegatesWhenDisabled ==
  lastOp.kind = "call" =>
    /\ lastOp.enabled = Resolved(lastOp)
    /\ Resolved(lastOp) => lastOp.value \in NeutralValues /\ lastOp.targetCalls = <<>>
    /\ ~Resolved(lastOp) => lastOp.value = "target" /\ lastOp.targetCalls = <<lastOp.args>>

\* a file-scoped call was delegated although the project is globally enabled
C1_Witness ==
  /\ lastOp.kind = "call"
  /\ lastOp.op = "getSemanticDiagnostics"
  /\ lastOp.targetCalls = <<lastOp.args>>
  /\ denoEnabled(lastOp.project)

\* the value of a ?? chain over a project's own record only
OwnChain(p) ==
  LET s == projectSettings[p]
  IN  IF s.workspace.enable \in {"true", "false"} THEN s.workspace.enable = "true"
      ELSE IF s.hasDenoConfig \in {"true", "false"} THEN s.hasDenoConfig = "true"
      ELSE FALSE

\* C2 as stated: the global enablement of a project depends on its own stored
\* record only: workspace.enable when true or false, else hasDenoConfig when
\* set, else false.
C2_OwnRecordOnly ==
  \A p \in DOMAIN projectSettings : denoEnabled(p) = OwnChain(p)

\* C2 amended: the global enablement of a project is its workspace.enable when
\* true or false, else the enable of the process-wide default when true or
\* false, else its hasDenoConfig when set, else false; and the default's
\* enable is the workspace.enable of the latest update that carried the key,
\* whichever project made it.
C2_OwnThenDefault ==
  /\ \A p \in DOMAIN projectSettings :
       denoEnabled(p) =
         IF projectSettings[p].workspace.enable \in {"true", "false"}
           THEN projectSettings[p].workspace.enable = "true"
         ELSE IF defaultSettings.enable \in {"true", "false"}
           THEN defaultSettings.enable = "true"
         ELSE OwnChain(p)
  /\ lastOp.updated /\ lastOp.settings.workspace.enable # Undefined
       => defaultSettings.enable = lastOp.settings.workspace.enable

\* p1 holds enable = null and hasDenoConfig = true, p2 has just written
\* enable = false, and p1 is globally disabled
C2_Witness ==
  /\ "p1" \in DOMAIN projectSettings
  /\ projectSettings["p1"].workspace.enable = Null
  /\ projectSettings["p1"].hasDenoConfig = "true"
  /\ lastOp.updated /\ lastOp.project = "p2"
  /\ lastOp.settings.workspace.enable = "false"
  /\ ~denoEnabled("p1")

\* the ancestry test as the specification defines it: false for a mixed
\* absolute/relative pair, else false iff the relative path from parent to
\* child begins with (or is) a ".." segment
BeginsWithTraversal(rel) ==
  /\ Len(rel) >= 2
  /\ rel[1] = Dot /\ rel[2] = Dot
  /\ Len(rel) = 2 \/ rel[3] = Sep

isAncestor(child, parent) ==
  IF isAbsolute(child) # isAbsolute(parent) THEN FALSE
  ELSE ~BeginsWithTraversal(relative(parent, child))

\* the answer of the path filters when "under" is the specified ancestry test
AncestorFilterAnswer(settings, fileName) ==
  LET list == settings.pathFilters.list
      matching == {i \in DOMAIN list : isAncestor(fileName, list[i].workspace)}
  IN  IF ~settings.pathFilters.defined \/ matching = {} THEN Undefined
      ELSE LET first == list[CHOOSE i \in matching : \A j \in matching : i <= j]
           IN  IF \E k \in DOMAIN first.disabled : isAncestor(fileName, first.disabled[k])
                 THEN "false"
               ELSE IF first.enabled.defined
                 THEN IF \E k \in DOMAIN first.enabled.list :
                             isAncestor(fileName, first.enabled.list[k])
                        THEN "true" ELSE "false"
               ELSE Undefined

\* C3: when some filter's workspace is an ancestor of the file, the first
\* such filter alone decides: false under one of its disabled paths, else,
\* with an enabled list, true iff under one of the enabled paths.
C3_FirstFilterDecides ==
  lastOp.kind = "call" =>
    LET answer == AncestorFilterAnswer(projectSettings[lastOp.project], lastOp.args[1])
    IN  answer # Undefined => lastOp.enabled = (answer = "true")

\* C3 with "ancestor" read as what pathStartsWith computes (holds of the code)
FirstFilterDecidesByPathStartsWith ==
  lastOp.kind = "call" =>
    LET list == projectSettings[lastOp.project].pathFilters.list
        f == lastOp.args[1]
        matching == {i \in DOMAIN list : pathStartsWith(f, list[i].workspace)}
    IN  matching # {} =>
          LET first == list[CHOOSE i \in matching : \A j \in matching : i <= j]
              off == \E k \in DOMAIN first.disabled : pathStartsWith(f, first.disabled[k])
          IN  /\ off => ~lastOp.enabled
              /\ ~off /\ first.enabled.defined =>
                   lastOp.enabled = \E k \in DOMAIN first.enabled.list :
                                       pathStartsWith(f, first.enabled.list[k])

\* C4: pathStartsWith is false for a mixed absolute/relative pair, else false
\* iff the relative path from parent to child begins with (or is) a ".."
\* segment, and true otherwise, also for a child segment such as "a..".
C4_AncestryContract ==
  pathQuery.done => pathQuery.result = isAncestor(pathQuery.child, pathQuery.parent)

\* C5: right after updateSettings(P, s) with s.workspace.enable true or false,
\* the global enablement of P is s.workspace.enable and the record stored
\* for P is exactly s.
C5_NoStaleness ==
  lastOp.updated /\ lastOp.settings.workspace.enable \in {"true", "false"} =>
    /\ denoEnabled(lastOp.project) = (lastOp.settings.workspace.enable = "true")
    /\ projectSettings[lastOp.project] = lastOp.settings

\* a second update of p1 has just replaced a different record by one that
\* disables a project with a deno config
C5_Witness ==
  /\ lastOp.kind = "onConfigurationChanged" /\ lastOp.project = "p1"
  /\ ~lastOp.same
  /\ configCalls["p1"] = 2
  /\ lastOp.settings.workspace.enable = "false"
  /\ lastOp.settings.hasDenoConfig = "true"
  /\ ~denoEnabled("p1")

\* C6: every onConfigurationChanged call stores the settings and then signals
\* one refresh, which sees the stored settings, also when they are unchanged;
\* the synchronous refresh signals number the onConfigurationChanged calls.
C6_RefreshPerCall ==
  /\ \A p \in Projects : syncRefreshes[p] = configCalls[p]
  /\ lastOp.kind = "onConfigurationChanged" =>
       /\ projectSettings[lastOp.project] = lastOp.settings
       /\ lastOp.refreshSeen = lastOp.settings

\* a second onConfigurationChanged with the settings already stored
C6_Witness ==
  /\ lastOp.kind = "onConfigurationChanged"
  /\ lastOp.same
  /\ configCalls[lastOp.project] = 2
  /\ syncRefreshes[lastOp.project] = 2

\* C7 as stated: both error-listing methods return an empty list when the
\* project is globally disabled and delegate otherwise, on the same branch.
C7_EmptyWhenDisabled ==
  /\ \A p \in Projects : getGlobalProjectErrors(p) = getAllProjectErrors(p)
  /\ lastOp.kind = "errors" =>
       lastOp.value = IF denoEnabled(lastOp.project) THEN "original" ELSE "[]"

\* C7 amended: both error-listing methods return an empty list when the
\* project is globally ENABLED and delegate to the original implementation
\* otherwise; in every state the two take the same branch.
C7_EmptyWhenEnabled ==
  /\ \A p \in Projects : getGlobalProjectErrors(p) = getAllProjectErrors(p)
  /\ lastOp.kind = "errors" =>
       lastOp.value = IF denoEnabled(lastOp.project) THEN "[]" ELSE "original"

\* getAllProjectErrors has just muted the errors of an enabled project
C7_Witness ==
  /\ lastOp.kind = "errors" /\ lastOp.op = "getAllProjectErrors"
  /\ lastOp.value = "[]"
  /\ denoEnabled(lastOp.project)

\* C8: the instances returned as neutral results are pairwise distinct, none
\* is a declared default, and each is empty when returned, whatever the host
\* did to the ones returned before.
C8_FreshNeutral ==
  /\ \A i, j \in DOMAIN handedOut : i # j => handedOut[i] # handedOut[j]
  /\ \A i \in DOMAIN handedOut : handedOut[i].origin = "call"
  /\ lastOp.kind = "call" /\ lastOp.id # NoId => Contents(lastOp.id) = <<>>

\* a second neutral array is returned after the host changed the first
C8_Witness ==
  /\ Len(handedOut) = 2
  /\ Contents(handedOut[1]) = <<"x">>
  /\ lastOp.kind = "call" /\ lastOp.id = handedOut[2]
  /\ lastOp.value = "[]"

\* the per-document override of a settings record for a file, when present
Override(settings, fileName) ==
  IF Has(settings.documents, fileName) /\ settings.documents[fileName] \in {"true", "false"}
    THEN settings.documents[fileName] ELSE Undefined

\* C9: the per-document override is consulted only when no filter matched or
\* the matched filter gave no answer, and then decides (the global enablement
\* when absent); an answer of the matched filter is never changed by it.
C9_OverrideAfterFilters ==
  lastOp.kind = "call" =>
    LET s == projectSettings[lastOp.project]
        f == lastOp.args[1]
        answer == AncestorFilterAnswer(s, f)
    IN  /\ answer = Undefined =>
             lastOp.enabled = IF Override(s, f) # Undefined THEN Override(s, f) = "true"
                              ELSE denoEnabled(lastOp.project)
        /\ answer # Undefined /\ Override(s, f) \notin {Undefined, answer} =>
             lastOp.enabled = (answer = "true")

\* C9 with "matched" and "under" read as what pathStartsWith computes
OverrideAfterFiltersByPathStartsWith ==
  lastOp.kind = "call" =>
    LET s == projectSettings[lastOp.project]
        f == lastOp.args[1]
        answer == filterAnswer(s, f)
    IN  /\ answer = Undefined =>
             lastOp.enabled = IF Override(s, f) # Undefined THEN Override(s, f) = "true"
                              ELSE denoEnabled(lastOp.project)
        /\ answer # Undefined /\ Override(s, f) \notin {Undefined, answer} =>
             lastOp.enabled = (answer = "true")

\* a step in which create was called for project p
CreateStep(p) == scheduled'[p] = scheduled[p] + 1

\* C10 as stated: create performs neither the settings update nor the refresh
\* synchronously.
C10_NothingSynchronous ==
  [][\A p \in Projects : CreateStep(p) =>
        /\ projectSettings' = projectSettings
        /\ deferredRuns' = deferredRuns /\ syncRefreshes' = syncRefreshes]_vars

\* C10 amended: create stores the settings synchronously but sends no refresh
\* signal; it schedules one deferred refresh, which runs in a later step and,
\* the deferred task being fair, eventually runs, in any order with the
\* configuration updates made after create.
C10_DeferredRefresh ==
  /\ [][\A p \in Projects :
          /\ CreateStep(p) =>
               /\ projectSettings'[p] = lastOp'.settings
               /\ deferredRuns' = deferredRuns /\ syncRefreshes' = syncRefreshes
               /\ lastOp'.refreshSeen = NoSettings
          /\ deferredRuns'[p] # deferredRuns[p] =>
               /\ scheduled' = scheduled
               /\ deferredRuns'[p] = deferredRuns[p] + 1
               /\ deferredRuns[p] < scheduled[p]]_vars
  /\ \A p \in Projects : \A n \in 1..MaxCreates :
       (scheduled[p] >= n) ~> (deferredRuns[p] >= n)

\* the deferred refresh of a project runs after a configuration update that
\* followed create
C10_Witness ==
  /\ lastOp.kind = "immediate"
  /\ configCalls[lastOp.project] = 1
  /\ deferredRuns[lastOp.project] = scheduled[lastOp.project]

====
